---- MODULE Spec2Model ----
(***************************************************************************)
(* TA-Scheduler: the requirement parser, the hour conversions, the         *)
(* availability lookup and the CP-SAT model built by solve_schedule.       *)
(*                                                                         *)
(* Times are kept in half hours ("ticks"), so that a Start or End cell of  *)
(* 10.5 is the integer 21; Python int() of a non-negative time is then     *)
(* t \div 2.  Strings that the code formats or parses are sequences of     *)
(* one-character strings.                                                  *)
(***************************************************************************)
EXTENDS Integers, Sequences, FiniteSets, TLC

(***************************************************************************)
(* Bounds of the model.                                                    *)
(***************************************************************************)
MaxRows == 2
MaxParseRows == 3
MaxTAs == 2
MaxHour == 24
MaxRuns == 2

(***************************************************************************)
(* Program constants.                                                      *)
(***************************************************************************)
MAX_DAILY_HOURS == 4
MAX_LABS_PER_TA == 3
shortage_penalty == 1000
coverage_bonus_weight == 10

\* n whole hours, in ticks
H(n) == 2 * n

\* Python int() of a non-negative number held in ticks: truncation
IntOf(t) == t \div 2

RECURSIVE SumSeq(_)
SumSeq(s) == IF s = <<>> THEN 0 ELSE Head(s) + SumSeq(Tail(s))

Range(s) == {s[i] : i \in 1..Len(s)}

(***************************************************************************)
(* src/utils/time_utils.py                                                 *)
(***************************************************************************)
DigitChars == <<"0", "1", "2", "3", "4", "5", "6", "7", "8", "9">>

IsDigit(c) == \E d \in 1..10 : DigitChars[d] = c

DigitVal(c) == (CHOOSE d \in 1..10 : DigitChars[d] = c) - 1

RECURSIVE IntToStr(_)
\* f"{n}" for a non-negative integer
IntToStr(n) ==
    IF n < 10 THEN <<DigitChars[n + 1]>>
    ELSE IntToStr(n \div 10) \o <<DigitChars[(n % 10) + 1]>>

RECURSIVE StrToIntAcc(_, _)
StrToIntAcc(s, acc) ==
    IF s = <<>> THEN acc
    ELSE StrToIntAcc(Tail(s), 10 * acc + DigitVal(Head(s)))

\* int(hour_str) for a string of decimal digits
StrToInt(s) == StrToIntAcc(s, 0)

LowerChar(c) ==
    CASE c = "A" -> "a"
      [] c = "M" -> "m"
      [] c = "P" -> "p"
      [] OTHER -> c

\* str.lower() that leaves the characters as they are
Lower_AsIs(s) == [i \in 1..Len(s) |-> s[i]]

\* str.lower()
Lower(s) == [i \in 1..Len(s) |-> LowerChar(s[i])]

\* convert_hour without the midnight case
convert_hour_NoMidnight(hour_str, ampm) ==
    LET h == StrToInt(hour_str)
    IN  IF Lower(ampm) = <<"a", "m">> THEN h
        ELSE (IF h = 12 THEN 12 ELSE h + 12)

convert_hour(hour_str, ampm) ==
    LET h == StrToInt(hour_str)
    IN  IF Lower(ampm) = <<"a", "m">>
        THEN (IF h = 12 THEN 0 ELSE h)
        ELSE (IF h = 12 THEN 12 ELSE h + 12)

convert_24_to_12_hour(hour_24) ==
    IF hour_24 = 0 THEN <<"1", "2", "a", "m">>
    ELSE IF hour_24 < 12 THEN IntToStr(hour_24) \o <<"a", "m">>
    ELSE IF hour_24 = 12 THEN <<"1", "2", "p", "m">>
    ELSE IntToStr(hour_24 - 12) \o <<"p", "m">>

RECURSIVE DigitPrefixLen(_)
DigitPrefixLen(s) ==
    IF s = <<>> \/ ~IsDigit(Head(s)) THEN 0 ELSE 1 + DigitPrefixLen(Tail(s))

\* the groups (\d+)(am|pm) of the header pattern, applied to one label
RegexHour(s) == SubSeq(s, 1, DigitPrefixLen(s))

RegexAmPm(s) == SubSeq(s, DigitPrefixLen(s) + 1, Len(s))

\* slots_overlap that only sees a second slot starting inside the first
slots_overlap_OneSided(slot1, slot2) ==
    IF slot1.day # slot2.day THEN FALSE
    ELSE slot1.start <= slot2.start /\ slot2.start < slot1.end

\* slots_overlap that also counts two slots that only touch
slots_overlap_Closed(slot1, slot2) ==
    IF slot1.day # slot2.day THEN FALSE
    ELSE slot1.start <= slot2.end /\ slot2.start <= slot1.end

slots_overlap(slot1, slot2) ==
    IF slot1.day # slot2.day THEN FALSE
    ELSE slot1.start < slot2.end /\ slot2.start < slot1.end

\* the dict of get_slots_by_day: day -> the slots of that day, in order
get_slots_by_day(slots) ==
    [d \in {slots[i].day : i \in 1..Len(slots)} |->
        LET OnDay(s) == s.day = d
        IN  SelectSeq(slots, OnDay)]

(***************************************************************************)
(* src/core/data_parser.py: parse_requirements.                            *)
(* A row of the requirements DataFrame has the cells section, day, start,  *)
(* end and required.  A Start/End cell is a number ("num", v in ticks), a  *)
(* float NaN ("nan") or text ("str"); a Required cell is an integer        *)
(* ("num") or something int() rejects ("bad": NaN or non-numeric text).    *)
(***************************************************************************)
Num(v) == [kind |-> "num", v |-> v]

NaNCell == [kind |-> "nan", v |-> 0]

StrCell == [kind |-> "str", v |-> 0]

BadCell == [kind |-> "bad", v |-> 0]

\* isinstance(c, (int, float))
IsNumber(c) == c.kind \in {"num", "nan"}

\* s < e on two numbers; every comparison with NaN is False
NumLess(s, e) == s.kind = "num" /\ e.kind = "num" /\ s.v < e.v

\* the test of line 134, negated there
ValidTimes(s, e) == IsNumber(s) /\ IsNumber(e) /\ NumLess(s, e)

\* the row's index label in df.iterrows(): a RangeIndex from 0
RowIdx(i) == i - 1

\* the dict appended for row i
MakeSlot(row, i) ==
    [id |-> RowIdx(i), section |-> row.section, day |-> row.day,
     start |-> row.start.v, end |-> row.end.v, required |-> row.required.v]

RECURSIVE ParseRows_Prepend(_, _, _)
\* the loop with slots.insert(0, ...) in place of slots.append(...)
ParseRows_Prepend(df, i, acc) ==
    IF i > Len(df) THEN [raised |-> FALSE, slots |-> acc]
    ELSE IF df[i].required.kind # "num"
         THEN [raised |-> TRUE, slots |-> <<>>]
    ELSE IF df[i].required.v = 0 THEN ParseRows_Prepend(df, i + 1, acc)
    ELSE IF ~ValidTimes(df[i].start, df[i].end) THEN ParseRows_Prepend(df, i + 1, acc)
    ELSE ParseRows_Prepend(df, i + 1, <<MakeSlot(df[i], i)>> \o acc)

RECURSIVE ParseRows(_, _, _)
\* the loop of parse_requirements from row i on, acc the slots so far
ParseRows(df, i, acc) ==
    IF i > Len(df) THEN [raised |-> FALSE, slots |-> acc]
    ELSE IF df[i].required.kind # "num"
         THEN [raised |-> TRUE, slots |-> <<>>]
    ELSE IF df[i].required.v = 0 THEN ParseRows(df, i + 1, acc)
    ELSE IF ~ValidTimes(df[i].start, df[i].end) THEN ParseRows(df, i + 1, acc)
    ELSE ParseRows(df, i + 1, Append(acc, MakeSlot(df[i], i)))

parse_requirements(df) == ParseRows(df, 1, <<>>)

(***************************************************************************)
(* The state.                                                              *)
(*   pc               position of the run                                  *)
(*   req_df           rows of the requirements DataFrame                   *)
(*   parsed           what parse_requirements returned (or that it raised) *)
(*   employees        the roster, in file order                            *)
(*   max_hours        TA -> hours hired for                                *)
(*   columns          the headers of the hourly columns of the responses  *)
(*                    DataFrame, spaces removed, by the hour they begin at *)
(*   responses        TA with a response row -> the set of <<column, day>> *)
(*                    cells in which the row lists the day as unavailable  *)
(*   max_daily_hours, max_labs_per_ta   the caps passed to solve_schedule  *)
(*   model            the CpModel of solve_schedule: the TAs it has        *)
(*                    variables for, the (TA, slot) pairs fixed to 0 and   *)
(*                    the slots grouped by day                             *)
(*   result           what solve_schedule produced                         *)
(*   files            for each of the three selected files whether its     *)
(*                    path is a readable .csv and whether the columns the  *)
(*                    parsers ask for are there                            *)
(*   missing          the missing list parse_responses returned            *)
(*   button_enabled   whether the Run Scheduler button is enabled          *)
(*   timer            whether the single-shot timer of hide_progress runs  *)
(*   error            the exception raised or the warning shown in the run *)
(*   solver_calls     how often the run called the solving backend         *)
(*   runs             how often the Run Scheduler button has been pressed  *)
(*   hour_24, label, back   an hour, its 12-hour label, the label parsed   *)
(*   hour_str, ampm, header_hour   a header's hour text and meridiem, and  *)
(*                    the hour convert_hour makes of them                  *)
(***************************************************************************)
VARIABLES pc, req_df, parsed, employees, max_hours, columns, responses,
          max_daily_hours, max_labs_per_ta, model, result,
          files, missing, button_enabled, timer, error, solver_calls, runs,
          hour_24, hour_str, ampm, label, back, header_hour

vars == <<pc, req_df, parsed, employees, max_hours, columns, responses,
          max_daily_hours, max_labs_per_ta, model, result,
          files, missing, button_enabled, timer, error, solver_calls, runs,
          hour_24, hour_str, ampm, label, back, header_hour>>

inputVars == <<req_df, employees, max_hours, columns, responses,
               max_daily_hours, max_labs_per_ta, files>>

runVars == <<missing, button_enabled, timer, error, solver_calls, runs>>

timeVars == <<hour_24, hour_str, ampm, label, back, header_hour>>

slots == parsed.slots

(***************************************************************************)
(* The responses DataFrame has one column per hourly window; the header of *)
(* the window starting at hour h reads "[<h> to <h+1>]" on the 12-hour     *)
(* clock, e.g. "[8am to 9am]", "[11am to 12pm]", "[11pm to 12am]".         *)
(***************************************************************************)
ResponseHours == 0..23

ClockLabel(h) ==
    IntToStr(IF h % 12 = 0 THEN 12 ELSE h % 12)
        \o (IF h % 24 < 12 THEN <<"a", "m">> ELSE <<"p", "m">>)

\* the header of the window starting at h, spaces removed
Header(h) ==
    <<"[">> \o ClockLabel(h) \o <<"t", "o">> \o ClockLabel((h + 1) % 24) \o <<"]">>

(***************************************************************************)
(* src/core/data_parser.py: is_available                                   *)
(***************************************************************************)
\* target_normalized for the hour current_hour
TargetNormalized(current_hour) ==
    <<"[">> \o convert_24_to_12_hour(current_hour) \o <<"t", "o">>
        \o convert_24_to_12_hour(current_hour + 1) \o <<"]">>

\* the columns whose header contains the target: the columns the scan of
\* lines 214-224 can stop at
ColumnsWith(target_normalized) ==
    {c \in DOMAIN columns : columns[c] = target_normalized}

MatchingColumns(current_hour) ==
    UNION {ColumnsWith(target) : target \in {TargetNormalized(current_hour)}}

\* hour_is_available after the scan of the columns
HourIsAvailable(ta_name, slot_day, current_hour) ==
    \A c \in MatchingColumns(current_hour) : <<c, slot_day>> \notin responses[ta_name]

is_available(ta_name, slot_day, slot_start_hour, slot_end_hour) ==
    IF ta_name \notin DOMAIN responses THEN FALSE
    ELSE \A h \in slot_start_hour..(slot_end_hour - 1) :
            HourIsAvailable(ta_name, slot_day, h)

(***************************************************************************)
(* src/core/data_parser.py: the availability map of parse_responses, which *)
(* App.run receives next to the missing list and does not pass on.         *)
(***************************************************************************)
\* lines 64-69: info['start'] of a column, convert_hour of the groups
\* (\d+)(am|pm) that follow the opening bracket of its header
HeaderStart(col) ==
    LET body == Tail(col)
        n == DigitPrefixLen(body)
    IN  convert_hour(SubSeq(body, 1, n), SubSeq(body, n + 1, n + 2))

\* line 68: info['end'] of a column, convert_hour of the groups (\d+)(am|pm)
\* that follow "to" in its header
HeaderEnd(col) ==
    LET body == Tail(col)
        n == DigitPrefixLen(body)
        rest == SubSeq(body, n + 5, Len(body))
        m == DigitPrefixLen(rest)
    IN  convert_hour(SubSeq(rest, 1, m), SubSeq(rest, m + 1, m + 2))

\* lines 74-77: the days named in any cell of the unavailability columns
ResponseDays ==
    {cell[2] : cell \in UNION {responses[e] : e \in DOMAIN responses}}

\* lines 87-98: df_av of a TA with a response row, as Hour -> day -> bool;
\* every entry is True unless the row lists the day in a column that starts
\* at the hour
availability_of(ta) ==
    [h \in {HeaderStart(columns[c]) : c \in DOMAIN columns} |->
        [d \in ResponseDays |->
            ~\E c \in DOMAIN columns :
                HeaderStart(columns[c]) = h /\ <<c, d>> \in responses[ta]]]

\* lines 82-86 and 98: the keys of the availability dict, the employees
\* whose rows are not empty
AvailabilityKeys == {e \in Range(employees) : e \in DOMAIN responses}

\* lines 79-99: the availability dict returned by parse_responses
availability == [ta \in AvailabilityKeys |-> availability_of(ta)]

(***************************************************************************)
(* src/core/scheduler.py: the model that solve_schedule builds.            *)
(***************************************************************************)
HasResponse(e) == e \in DOMAIN responses

\* parse_responses putting every employee on the missing list
missing_of_Everyone(emps) == emps

\* parse_responses, lines 81-86: the employees without a row in the
\* responses, in roster order
missing_of(emps) ==
    LET NoRow(e) == e \notin DOMAIN responses
    IN  SelectSeq(emps, NoRow)

\* the non-fatal conditions App.run holds as data next to the reports: the
\* missing list of parse_responses; parse_requirements returns its slots
\* only and writes its skip messages to the console
Warnings ==
    [k \in 1..Len(missing) |-> [kind |-> "missing", what |-> missing[k]]]

\* line 58 without its filter
ScheduledOf_All(emps) == emps

\* line 58: the employees with a response row, in roster order
ScheduledOf(emps) == SelectSeq(emps, HasResponse)

sched == model.sched

TAIdx == 1..Len(sched)

SlotIds == {slots[k].id : k \in 1..Len(slots)}

\* max_hours.get(ta_name, 0)
Hired(ta_name) == IF ta_name \in DOMAIN max_hours THEN max_hours[ta_name] ELSE 0

\* sum(x[ta_idx][slot['id']] for ta_idx in range(len(sched)))
AssignedCount(x, id) == Cardinality({t \in TAIdx : x[<<t, id>>]})

\* int(slot['end'] - slot['start']), in hours
IntDuration(slot) == IntOf(slot.end - slot.start)

\* slot['end'] - slot['start'], in ticks
Duration(slot) == slot.end - slot.start

\* lines 96-99: the (TA, slot) pairs whose variable is fixed to 0
Unavailable(sch) ==
    {p \in (1..Len(sch)) \X SlotIds :
        \E k \in 1..Len(slots) :
            /\ slots[k].id = p[2]
            /\ ~is_available(sch[p[1]], slots[k].day,
                             IntOf(slots[k].start), IntOf(slots[k].end))}

AvailabilityFix(x) == \A p \in model.fixed : ~x[p]

\* the coverage constraint as an inequality: assigned + shortage >= required
CoverageConstraint_AtLeast(x, shortage, slot) ==
    /\ shortage[slot.id] \in 0..slot.required
    /\ AssignedCount(x, slot.id) + shortage[slot.id] >= slot.required

\* lines 109 and 114: the shortage's domain and the coverage equality
CoverageConstraint(x, shortage, slot) ==
    /\ shortage[slot.id] \in 0..slot.required
    /\ AssignedCount(x, slot.id) + shortage[slot.id] = slot.required

\* lines 121-123
HourLimit(x, t) ==
    SumSeq([k \in 1..Len(slots) |->
              IF x[<<t, slots[k].id>>] THEN IntDuration(slots[k]) ELSE 0])
        <= Hired(sched[t])

\* lines 131-135
NoOverlap(x, t) ==
    \A i, j \in 1..Len(slots) :
        (i < j /\ slots_overlap(slots[i], slots[j]))
            => ~(x[<<t, slots[i].id>>] /\ x[<<t, slots[j].id>>])

\* lines 142-147
DailyLimit(x, t) ==
    LET slots_by_day == model.slots_by_day
    IN  \A day \in DOMAIN slots_by_day :
            SumSeq([k \in 1..Len(slots_by_day[day]) |->
                      IF x[<<t, slots_by_day[day][k].id>>]
                      THEN IntDuration(slots_by_day[day][k]) ELSE 0])
                <= max_daily_hours

unique_labs == {slots[k].section : k \in 1..Len(slots)}

\* the lab limit with the implication of line 164 reversed
LabLimit_Reversed(x, ind, t) ==
    /\ \A k \in 1..Len(slots) : ind[<<t, slots[k].section>>] => x[<<t, slots[k].id>>]
    /\ Cardinality({lab \in unique_labs : ind[<<t, lab>>]}) <= max_labs_per_ta

\* lines 156-167, for the indicators ind of TA t
LabLimit(x, ind, t) ==
    /\ \A k \in 1..Len(slots) : x[<<t, slots[k].id>>] => ind[<<t, slots[k].section>>]
    /\ Cardinality({lab \in unique_labs : ind[<<t, lab>>]}) <= max_labs_per_ta

\* lines 131-133: the pairs of positions in slots for which the scan adds a
\* constraint x[ta][slot1] + x[ta][slot2] <= 1
OverlapPairs ==
    {p \in (1..Len(slots)) \X (1..Len(slots)) :
        p[1] < p[2] /\ slots_overlap(slots[p[1]], slots[p[2]])}

\* the assignments that satisfy every constraint on x alone
XSet ==
    {x \in [TAIdx \X SlotIds -> BOOLEAN] :
        /\ AvailabilityFix(x)
        /\ \A t \in TAIdx : /\ HourLimit(x, t)
                            /\ NoOverlap(x, t)
                            /\ DailyLimit(x, t)}

MaxRequired == IF slots = <<>> THEN 0
               ELSE CHOOSE m \in {slots[k].required : k \in 1..Len(slots)} :
                        \A k \in 1..Len(slots) : slots[k].required <= m

\* the shortage values when no coverage constraint ties them to the slots
ShortageSet_NoCoverage(x) == [SlotIds -> 0..MaxRequired]

ShortageSet(x) ==
    {sh \in [SlotIds -> 0..MaxRequired] :
        \A k \in 1..Len(slots) : CoverageConstraint(x, sh, slots[k])}

IndicatorSet(x) ==
    {ind \in [TAIdx \X unique_labs -> BOOLEAN] :
        \A t \in TAIdx : LabLimit(x, ind, t)}

\* every assignment of the model's variables that satisfies its constraints
Solutions ==
    UNION {{[x |-> x, shortage |-> sh, ind |-> ind] :
                sh \in ShortageSet(x), ind \in IndicatorSet(x)} : x \in XSet}

\* what solver.Value can be asked for (lines 224, 227, 250): the values of
\* the assignment and shortage variables in some solution
SolverValues ==
    UNION {{[x |-> x, shortage |-> sh] : sh \in ShortageSet(x)} :
             x \in {y \in XSet : \E ind \in IndicatorSet(y) : TRUE}}

\* the objective of line 186 with the shortage term added instead of
\* subtracted
Objective_ShortageRewarded(sol) ==
    SumSeq([k \in 1..Len(slots) |->
              Duration(slots[k]) * AssignedCount(sol.x, slots[k].id)])
    + 2 * shortage_penalty * SumSeq([k \in 1..Len(slots) |-> sol.shortage[slots[k].id]])
    + 2 * coverage_bonus_weight
        * SumSeq([k \in 1..Len(slots) |-> AssignedCount(sol.x, slots[k].id)])

\* twice the objective of line 186 (durations are in ticks)
Objective(sol) ==
    SumSeq([k \in 1..Len(slots) |->
              Duration(slots[k]) * AssignedCount(sol.x, slots[k].id)])
    - 2 * shortage_penalty * SumSeq([k \in 1..Len(slots) |-> sol.shortage[slots[k].id]])
    + 2 * coverage_bonus_weight
        * SumSeq([k \in 1..Len(slots) |-> AssignedCount(sol.x, slots[k].id)])

(***************************************************************************)
(* src/core/scheduler.py: the reports built from the solver's values.      *)
(***************************************************************************)
\* lines 222-225: the names of the TAs assigned to the slot, in sched order
\* the names of the TAs assigned to the slot, last TA of sched first
AssignedNames_Reversed(sol, slot) ==
    LET On(t) == sol.x[<<t, slot.id>>]
        idx == SelectSeq([t \in TAIdx |-> t], On)
    IN  [k \in 1..Len(idx) |-> sched[idx[Len(idx) + 1 - k]]]

AssignedNames(sol, slot) ==
    LET On(t) == sol.x[<<t, slot.id>>]
        idx == SelectSeq([t \in TAIdx |-> t], On)
    IN  [k \in 1..Len(idx) |-> sched[idx[k]]]

\* lines 229-239
SlotRow(sol, slot) ==
    [LabSection |-> slot.section, Day |-> slot.day,
     StartTime |-> slot.start, EndTime |-> slot.end,
     Duration |-> slot.end - slot.start,
     TAsAssigned |-> AssignedNames(sol, slot),
     AssignedCount |-> Len(AssignedNames(sol, slot)),
     RequiredCount |-> slot.required,
     Needed |-> sol.shortage[slot.id]]

slot_results(sol) == [k \in 1..Len(slots) |-> SlotRow(sol, slots[k])]

\* the slots assigned to TA t, in slot order
AssignedSlots(sol, t) ==
    LET On(slot) == sol.x[<<t, slot.id>>]
    IN  SelectSeq(slots, On)

\* lines 243-277; hours are in ticks
ScheduledRow(sol, t) ==
    LET mine == AssignedSlots(sol, t)
        total_hrs == SumSeq([k \in 1..Len(mine) |-> mine[k].end - mine[k].start])
        hired == Hired(sched[t])
    IN  [TAName |-> sched[t],
         HoursAssigned |-> total_hrs,
         RemainingHours |-> H(hired) - total_hrs,
         HoursHiredFor |-> hired,
         DailyBreakdown |->
            [day \in {mine[k].day : k \in 1..Len(mine)} |->
                SumSeq([k \in 1..Len(mine) |->
                          IF mine[k].day = day THEN mine[k].end - mine[k].start ELSE 0])],
         LabsAssigned |->
            [k \in 1..Len(mine) |-> <<mine[k].section, mine[k].day, mine[k].start, mine[k].end>>]]

\* lines 280-290
UnscheduledRow(ta_name) ==
    [TAName |-> ta_name,
     HoursAssigned |-> 0,
     RemainingHours |-> H(Hired(ta_name)),
     HoursHiredFor |-> Hired(ta_name),
     DailyBreakdown |-> <<>>,
     LabsAssigned |-> <<>>]

\* the TA report without the loop of lines 280-290
ta_results_SchedOnly(sol) == [t \in TAIdx |-> ScheduledRow(sol, t)]

ta_results(sol) ==
    LET NotSched(e) == e \notin Range(sched)
        rest == SelectSeq(employees, NotSched)
    IN  [t \in TAIdx |-> ScheduledRow(sol, t)]
            \o [k \in 1..Len(rest) |-> UnscheduledRow(rest[k])]

NoSolution == [x |-> <<>>, shortage |-> <<>>]

NoResult ==
    [status |-> "none", returned |-> FALSE, sol |-> NoSolution,
     slot_results |-> <<>>, ta_results |-> <<>>]

\* solve_schedule raised a ValueError
Raised(why) ==
    [status |-> why, returned |-> FALSE, sol |-> NoSolution,
     slot_results |-> <<>>, ta_results |-> <<>>]

\* solve_schedule returned the two reports
Returned(status, sol) ==
    [status |-> status, returned |-> TRUE, sol |-> sol,
     slot_results |-> slot_results(sol), ta_results |-> ta_results(sol)]

(***************************************************************************)
(* The solving backend: any status and any values its contract allows.     *)
(* OPTIMAL comes with a solution of maximal objective, FEASIBLE with any   *)
(* solution; a model without solutions is INFEASIBLE or MODEL_INVALID; the *)
(* time limit can pass before a solution is found (UNKNOWN).  The result   *)
(* keeps the values the program reads, those of x and shortage.            *)
(***************************************************************************)
\* the messages of lines 206-211 with one text for both statuses
ErrorMessage_Merged(status) ==
    IF status \in {"INFEASIBLE", "MODEL_INVALID"}
    THEN "Invalid model. Please check input data."
    ELSE "Solver failed with status: " \o status

\* lines 206-211: the text of the ValueError raised for a status
ErrorMessage(status) ==
    CASE status = "INFEASIBLE" ->
           "No feasible solution exists. Try relaxing constraints or reducing requirements."
      [] status = "MODEL_INVALID" -> "Invalid model. Please check input data."
      [] OTHER -> "Solver failed with status: " \o status

\* the smallest value of the objective over the solutions sols
BestObjective_Least(sols) ==
    CHOOSE m \in {Objective(s) : s \in sols} : \A s \in sols : m <= Objective(s)

\* the largest value of the objective over the solutions sols
BestObjective(sols) ==
    CHOOSE m \in {Objective(s) : s \in sols} : \A s \in sols : Objective(s) <= m

\* the backend's answers when OPTIMAL may come with any solution
SolveOutcomesOf_AnyOptimal(sols, best) ==
    IF sols = {} THEN {Raised("INFEASIBLE"), Raised("MODEL_INVALID")}
    ELSE {Returned("FEASIBLE", s) : s \in sols}
         \cup {Returned("OPTIMAL", s) : s \in sols}
         \cup {Raised("UNKNOWN")}

SolveOutcomesOf(sols, best) ==
    IF sols = {} THEN {Raised("INFEASIBLE"), Raised("MODEL_INVALID")}
    ELSE {Returned("FEASIBLE", s) : s \in sols}
         \cup {Returned("OPTIMAL", s) : s \in {b \in sols : Objective(b) = best}}
         \cup {Raised("UNKNOWN")}

SolveOutcomes ==
    UNION {UNION {SolveOutcomesOf(sols, best) :
                    best \in {IF sols = {} THEN 0 ELSE BestObjective(sols)}} :
             sols \in {SolverValues}}

(***************************************************************************)
(* Inputs.                                                                 *)
(***************************************************************************)
SeqsUpTo(S, n) == UNION {[1..k -> S] : k \in 0..n}

Row(section, day, start, end, required) ==
    [section |-> section, day |-> day, start |-> start, end |-> end,
     required |-> required]

\* requirement rows of the scheduling runs: two-hour Monday slots that
\* overlap (9-11, 10-12) or touch (9-11, 11-13), a second section that needs
\* two TAs, a Tuesday slot from 21.5 to 24, a row with Required 0 and a row
\* with Required -1
RowPool ==
    { Row("L1", "Mon", Num(H(9)), Num(H(11)), Num(1)),
      Row("L1", "Mon", Num(H(10)), Num(H(12)), Num(1)),
      Row("L2", "Mon", Num(H(11)), Num(H(13)), Num(2)),
      Row("L1", "Tue", Num(H(21) + 1), Num(H(24)), Num(1)),
      Row("L1", "Mon", Num(H(9)), Num(H(11)), Num(0)),
      Row("L2", "Tue", Num(H(9)), Num(H(11)), Num(-1)) }

\* <<Start, End>> cells of the rows given to parse_requirements alone:
\* ordered, fractional, unordered, empty (NaN) and text
TimeCells ==
    { <<Num(H(9)), Num(H(11))>>, <<Num(H(9)), Num(H(10) + 1)>>,
      <<Num(H(11)), Num(H(9))>>, <<NaNCell, Num(H(11))>>, <<Num(H(9)), StrCell>> }

RequiredCells == {Num(-1), Num(0), Num(1), BadCell}

ParseRowPool ==
    {Row("L1", "Mon", t[1], t[2], r) : t \in TimeCells, r \in RequiredCells}

TANames == <<"ta1", "ta2", "ta3", "ta4">>

\* the roster's "Hired for" column: 4 hours for the first TA, 3 for the others
HiredFor(i) == IF i = 1 THEN 4 ELSE 3

\* the response row of the first TA: nothing listed, or Monday listed under
\* "10am to 11am" and Tuesday under "11pm to 12am"
UnavailablePool == {{}, {<<10, "Mon">>, <<23, "Tue">>}}

\* <<max_daily_hours, max_labs_per_ta>> as entered in the two input fields
CapPool == {<<MAX_DAILY_HOURS, MAX_LABS_PER_TA>>, <<2, MAX_LABS_PER_TA>>,
            <<MAX_DAILY_HOURS, 1>>, <<0, MAX_LABS_PER_TA>>}

\* every path names a readable .csv file and every column asked for is there
FilesOK ==
    [max_path |-> TRUE, resp_path |-> TRUE, req_path |-> TRUE,
     max_columns |-> TRUE, req_columns |-> TRUE, name_column |-> TRUE]

\* one path or one column is not as the run needs it
FaultyFiles == {[FilesOK EXCEPT ![f] = FALSE] : f \in DOMAIN FilesOK}

NotParsed == [raised |-> FALSE, slots |-> <<>>]

NoModel == [sched |-> <<>>, fixed |-> {}, slots_by_day |-> <<>>]

TimeIdle ==
    /\ hour_24 = 0
    /\ hour_str = <<>>
    /\ ampm = <<>>
    /\ label = <<>>
    /\ back = -1
    /\ header_hour = -1

RosterInit ==
    \E n \in 1..MaxTAs :
        /\ columns = [c \in ResponseHours |-> Header(c)]
        /\ employees = SubSeq(TANames, 1, n)
        /\ max_hours = [e \in Range(SubSeq(TANames, 1, n)) |->
                          HiredFor(CHOOSE i \in 1..n : TANames[i] = e)]
        /\ \/ responses = [e \in Range(SubSeq(TANames, 2, n)) |-> {}]
           \/ \E u \in UnavailablePool :
                 responses = [e \in Range(SubSeq(TANames, 1, n)) |->
                                IF e = TANames[1] THEN u ELSE {}]

\* the requirement files of S in which no row is repeated
DistinctRows(S) ==
    {df \in S : \A i, j \in 1..Len(df) : i < j => df[i] # df[j]}

\* nothing of the run has happened
RunIdle ==
    /\ missing = <<>>
    /\ button_enabled = TRUE
    /\ timer = FALSE
    /\ error = "none"
    /\ solver_calls = 0
    /\ runs = 1

\* one TA with an empty response row and one requirement row, behind files
\* of which one is faulty or whose responses have no unavailability column
FaultInit ==
    /\ req_df = <<Row("L1", "Mon", Num(H(9)), Num(H(11)), Num(1))>>
    /\ employees = SubSeq(TANames, 1, 1)
    /\ max_hours = [e \in {TANames[1]} |-> HiredFor(1)]
    /\ responses = [e \in {TANames[1]} |-> {}]
    /\ max_daily_hours = MAX_DAILY_HOURS
    /\ max_labs_per_ta = MAX_LABS_PER_TA
    /\ \/ files \in FaultyFiles /\ columns = [c \in ResponseHours |-> Header(c)]
       \/ files = FilesOK /\ columns = <<>>

\* the Run Scheduler button has been pressed
Init ==
    /\ pc = "run"
    /\ \/ /\ files = FilesOK
          /\ req_df \in DistinctRows(SeqsUpTo(RowPool, MaxRows))
          /\ RosterInit
          /\ \E cap \in CapPool : max_daily_hours = cap[1] /\ max_labs_per_ta = cap[2]
       \/ FaultInit
    /\ parsed = NotParsed
    /\ model = NoModel
    /\ result = NoResult
    /\ RunIdle
    /\ TimeIdle

(***************************************************************************)
(* Actions.                                                                *)
(***************************************************************************)
\* App.run, lines 341-374: the three paths are checked, then show_progress
ValidatePaths ==
    /\ pc = "run"
    /\ IF files.max_path /\ files.resp_path /\ files.req_path
       THEN /\ button_enabled' = FALSE
            /\ pc' = "paths_ok"
            /\ UNCHANGED error
       ELSE /\ error' = "INVALID_PATH"
            /\ pc' = "done"
            /\ UNCHANGED button_enabled
    /\ UNCHANGED <<inputVars, runs, parsed, model, result, missing, timer, solver_calls, timeVars>>

\* App.run, lines 393-394: parse_max_hours and the read of the responses
LoadRoster ==
    /\ pc = "paths_ok"
    /\ IF files.max_columns
       THEN pc' = "start" /\ UNCHANGED error
       ELSE pc' = "failed" /\ error' = "MAX_COLUMNS"
    /\ UNCHANGED <<inputVars, runs, parsed, model, result, missing, button_enabled, timer,
                   solver_calls, timeVars>>

\* parse_requirements, lines 116-145
ParseRequirements ==
    /\ pc = "start"
    /\ parsed' = IF files.req_columns THEN parse_requirements(req_df)
                 ELSE [raised |-> TRUE, slots |-> <<>>]
    /\ pc' = "parsed"
    /\ UNCHANGED <<inputVars, model, result, runVars, timeVars>>

\* parse_responses as App.run calls it (line 398): its two errors, else the
\* missing list
ParseResponses ==
    /\ pc = "parsed"
    /\ ~parsed.raised
    /\ IF ~files.name_column
       THEN pc' = "failed" /\ error' = "NAME_COLUMN" /\ UNCHANGED missing
       ELSE IF DOMAIN columns = {}
       THEN pc' = "failed" /\ error' = "NO_UNAVAILABILITY_COLUMNS" /\ UNCHANGED missing
       ELSE /\ missing' = missing_of(employees)
            /\ pc' = "responses"
            /\ UNCHANGED error
    /\ UNCHANGED <<inputVars, runs, parsed, model, result, button_enabled, timer,
                   solver_calls, timeVars>>

\* App.run, lines 410-439: no slots is an error; a cap that is not a
\* positive number is answered with a message box and a return
CheckInputs ==
    /\ pc = "responses"
    /\ IF slots = <<>>
       THEN pc' = "failed" /\ error' = "NO_SLOTS_TO_SCHEDULE"
       ELSE IF max_daily_hours <= 0 \/ max_labs_per_ta <= 0
       THEN pc' = "done" /\ error' = "INVALID_INPUT"
       ELSE pc' = "ready" /\ UNCHANGED error
    /\ UNCHANGED <<inputVars, runs, parsed, model, result, missing, button_enabled, timer,
                   solver_calls, timeVars>>

\* solve_schedule adding its variables to the model of the call before
BuildModel_SharedModel ==
    /\ pc = "ready"
    /\ IF ScheduledOf(employees) = <<>>
       THEN /\ result' = Raised("NO_EMPLOYEES")
            /\ error' = "NO_EMPLOYEES"
            /\ pc' = "failed"
            /\ UNCHANGED model
       ELSE IF slots = <<>>
       THEN /\ result' = Raised("NO_SLOTS")
            /\ error' = "NO_SLOTS"
            /\ pc' = "failed"
            /\ UNCHANGED model
       ELSE /\ model' = [sched |-> model.sched \o ScheduledOf(employees),
                         fixed |-> model.fixed \cup Unavailable(ScheduledOf(employees)),
                         slots_by_day |-> get_slots_by_day(slots)]
            /\ pc' = "built"
            /\ UNCHANGED <<result, error>>
    /\ UNCHANGED <<inputVars, runs, parsed, missing, button_enabled, timer, solver_calls,
                   timeVars>>

\* solve_schedule, lines 57-186: the early errors, then the CpModel
BuildModel ==
    /\ pc = "ready"
    /\ IF ScheduledOf(employees) = <<>>
       THEN /\ result' = Raised("NO_EMPLOYEES")
            /\ error' = "NO_EMPLOYEES"
            /\ pc' = "failed"
            /\ UNCHANGED model
       ELSE IF slots = <<>>
       THEN /\ result' = Raised("NO_SLOTS")
            /\ error' = "NO_SLOTS"
            /\ pc' = "failed"
            /\ UNCHANGED model
       ELSE /\ model' = [sched |-> ScheduledOf(employees),
                         fixed |-> Unavailable(ScheduledOf(employees)),
                         slots_by_day |-> get_slots_by_day(slots)]
            /\ pc' = "built"
            /\ UNCHANGED <<result, error>>
    /\ UNCHANGED <<inputVars, runs, parsed, missing, button_enabled, timer, solver_calls,
                   timeVars>>

\* solve_schedule, lines 188-292: the backend's answer, then the reports
SolveModel ==
    /\ pc = "built"
    /\ result' \in SolveOutcomes
    /\ solver_calls' = solver_calls + 1
    /\ pc' = IF result'.returned THEN "solved" ELSE "failed"
    /\ error' = IF result'.returned THEN error ELSE ErrorMessage(result'.status)
    /\ UNCHANGED <<inputVars, runs, parsed, model, missing, button_enabled, timer, timeVars>>

\* App.run, lines 450-530: the reports are logged, hide_progress is left to
\* a single-shot timer, the export dialogs are answered and run returns
ShowResults ==
    /\ pc = "solved"
    /\ timer' = TRUE
    /\ result' = NoResult
    /\ pc' = "shown"
    /\ UNCHANGED <<inputVars, runs, parsed, model, missing, button_enabled, error,
                   solver_calls, timeVars>>

\* hide_progress, called by the timer of line 498
HideProgress ==
    /\ pc = "shown"
    /\ timer
    /\ timer' = FALSE
    /\ button_enabled' = TRUE
    /\ pc' = "done"
    /\ UNCHANGED <<inputVars, runs, parsed, model, result, missing, error, solver_calls,
                   timeVars>>

\* App.run, lines 532-579: the except block
HandleError ==
    /\ \/ pc = "failed"
       \/ pc = "parsed" /\ parsed.raised
    /\ error' = IF pc = "parsed" THEN "REQUIREMENTS" ELSE error
    /\ button_enabled' = TRUE
    /\ result' = NoResult
    /\ pc' = "done"
    /\ UNCHANGED <<inputVars, runs, parsed, model, missing, timer, solver_calls, timeVars>>

\* the enabled button is clicked again (line 118): run starts anew on the
\* same files and fields; what the last run parsed and showed is gone, and
\* model is the CpModel of the last solve_schedule call until the next call
\* makes its own
PressRun ==
    /\ pc = "done"
    /\ button_enabled
    /\ runs < MaxRuns
    /\ runs' = runs + 1
    /\ pc' = "run"
    /\ parsed' = NotParsed
    /\ missing' = <<>>
    /\ error' = "none"
    /\ solver_calls' = 0
    /\ UNCHANGED <<inputVars, model, result, button_enabled, timer, timeVars>>

Next ==
    \/ ValidatePaths
    \/ LoadRoster
    \/ ParseRequirements
    \/ ParseResponses
    \/ CheckInputs
    \/ BuildModel
    \/ SolveModel
    \/ ShowResults
    \/ HideProgress
    \/ HandleError

Spec == Init /\ [][Next]_vars

(***************************************************************************)
(* One run under fairness: run() is a single handler that executes to its  *)
(* end, and the event loop fires the single-shot timer of line 498.        *)
(***************************************************************************)
SpecLive == Init /\ [][Next]_vars /\ WF_vars(Next)

(***************************************************************************)
(* solve_schedule on its own, as App.run calls it: the files were read,    *)
(* some slot was accepted and both caps are positive.                      *)
(***************************************************************************)
\* the rows of RowPool with a positive Required
SolveRowPool == {r \in RowPool : r.required.v > 0}

InitSolve ==
    /\ pc = "ready"
    /\ files = FilesOK
    /\ req_df \in DistinctRows(SeqsUpTo(SolveRowPool, MaxRows)) \ {<<>>}
    /\ parsed = parse_requirements(req_df)
    /\ RosterInit
    /\ \E cap \in CapPool :
          /\ cap[1] > 0 /\ cap[2] > 0
          /\ max_daily_hours = cap[1] /\ max_labs_per_ta = cap[2]
    /\ missing = missing_of(employees)
    /\ button_enabled = FALSE
    /\ timer = FALSE
    /\ error = "none"
    /\ solver_calls = 0
    /\ runs = 1
    /\ model = NoModel
    /\ result = NoResult
    /\ TimeIdle

NextSolve == BuildModel \/ SolveModel

SpecSolve == InitSolve /\ [][NextSolve]_vars

(***************************************************************************)
(* The button pressed up to MaxRuns times on the same files and fields.    *)
(***************************************************************************)
\* requirement rows of the repeated runs: two Monday slots that touch, the
\* second of another section and needing two TAs, and a row with Required 0
RerunRowPool ==
    { Row("L1", "Mon", Num(H(9)), Num(H(11)), Num(1)),
      Row("L2", "Mon", Num(H(11)), Num(H(13)), Num(2)),
      Row("L1", "Mon", Num(H(9)), Num(H(11)), Num(0)) }

InitRerun ==
    /\ pc = "run"
    /\ \/ /\ files = FilesOK
          /\ req_df \in DistinctRows(SeqsUpTo(RerunRowPool, MaxRows))
          /\ RosterInit
          /\ \E cap \in CapPool : max_daily_hours = cap[1] /\ max_labs_per_ta = cap[2]
       \/ FaultInit
    /\ parsed = NotParsed
    /\ model = NoModel
    /\ result = NoResult
    /\ RunIdle
    /\ TimeIdle

NextRerun == Next \/ PressRun

SpecRerun == InitRerun /\ [][NextRerun]_vars

(***************************************************************************)
(* parse_requirements on its own, over every combination of cells.         *)
(***************************************************************************)
InitParse ==
    /\ pc = "start"
    /\ req_df \in SeqsUpTo(ParseRowPool, MaxParseRows)
    /\ employees = <<>>
    /\ max_hours = <<>>
    /\ columns = <<>>
    /\ responses = <<>>
    /\ max_daily_hours = MAX_DAILY_HOURS
    /\ max_labs_per_ta = MAX_LABS_PER_TA
    /\ parsed = NotParsed
    /\ model = NoModel
    /\ result = NoResult
    /\ files = FilesOK
    /\ RunIdle
    /\ TimeIdle

NextParse == ParseRequirements

SpecParse == InitParse /\ [][NextParse]_vars

(***************************************************************************)
(* The hour conversions on their own.                                      *)
(***************************************************************************)
InitTime ==
    /\ pc = "start"
    /\ hour_24 \in 0..MaxHour
    /\ hour_str \in {IntToStr(n) : n \in 1..12}
    /\ ampm \in {<<"a", "m">>, <<"p", "m">>, <<"A", "M">>, <<"P", "M">>}
    /\ label = <<>>
    /\ back = -1
    /\ header_hour = -1
    /\ req_df = <<>>
    /\ employees = <<>>
    /\ max_hours = <<>>
    /\ columns = <<>>
    /\ responses = <<>>
    /\ max_daily_hours = MAX_DAILY_HOURS
    /\ max_labs_per_ta = MAX_LABS_PER_TA
    /\ parsed = NotParsed
    /\ model = NoModel
    /\ result = NoResult
    /\ files = FilesOK
    /\ RunIdle

\* the hour is written as a 12-hour label
FormatHour ==
    /\ pc = "start"
    /\ label' = convert_24_to_12_hour(hour_24)
    /\ pc' = "label"
    /\ UNCHANGED <<inputVars, parsed, model, result, runVars,
                   hour_24, hour_str, ampm, back, header_hour>>

\* the label is split by the header pattern and converted back
ParseLabel ==
    /\ pc = "label"
    /\ back' = convert_hour(RegexHour(label), RegexAmPm(label))
    /\ pc' = "back"
    /\ UNCHANGED <<inputVars, parsed, model, result, runVars,
                   hour_24, hour_str, ampm, label, header_hour>>

\* a header's hour and meridiem are converted
ConvertHour ==
    /\ pc = "back"
    /\ header_hour' = convert_hour(hour_str, ampm)
    /\ pc' = "hour"
    /\ UNCHANGED <<inputVars, parsed, model, result, runVars,
                   hour_24, hour_str, ampm, label, back>>

NextTime == FormatHour \/ ParseLabel \/ ConvertHour

SpecTime == InitTime /\ [][NextTime]_vars

(***************************************************************************)
(* Properties.                                                             *)
(***************************************************************************)

\* C1: in every result solve_schedule returns, every slot of the slot report
\* has Assigned Count + Needed = Required Count, where Assigned Count is the
\* number of TAs whose assignment variable for the slot is true and Needed
\* is the value of the slot's shortage variable.
C1_CoverageBalance ==
    result.returned =>
        /\ Len(result.slot_results) = Len(slots)
        /\ \A k \in 1..Len(slots) :
              /\ result.slot_results[k].AssignedCount + result.slot_results[k].Needed
                    = result.slot_results[k].RequiredCount
              /\ result.slot_results[k].AssignedCount
                    = Cardinality({t \in TAIdx : result.sol.x[<<t, slots[k].id>>]})
              /\ result.slot_results[k].Needed = result.sol.shortage[slots[k].id]
              /\ result.slot_results[k].RequiredCount = slots[k].required

\* a returned result with a slot that is partly staffed
C1_Witness ==
    /\ result.returned
    /\ \E k \in 1..Len(result.slot_results) :
          /\ result.slot_results[k].AssignedCount >= 1
          /\ result.slot_results[k].Needed >= 1

\* C2: in every returned result the durations (end - start) of the slots
\* assigned to a scheduled TA sum to at most the TA's hired hours.
C2_HiredHoursCap ==
    result.returned =>
        \A t \in TAIdx :
            SumSeq([k \in 1..Len(slots) |->
                      IF result.sol.x[<<t, slots[k].id>>]
                      THEN slots[k].end - slots[k].start ELSE 0])
                <= H(Hired(sched[t]))

\* C3: in every returned result no TA is assigned to two distinct slots of
\* the same day whose half-open time ranges [start, end) have a point in
\* common.
C3_NoOverlappingAssignments ==
    result.returned =>
        \A t \in TAIdx : \A i, j \in 1..Len(slots) :
            (/\ i # j
             /\ result.sol.x[<<t, slots[i].id>>]
             /\ result.sol.x[<<t, slots[j].id>>]
             /\ slots[i].day = slots[j].day)
                => (slots[i].start..(slots[i].end - 1))
                       \cap (slots[j].start..(slots[j].end - 1)) = {}

\* a returned result in which a TA free for two intersecting slots of one
\* day holds one of them
C3_Witness ==
    /\ result.returned
    /\ \E t \in TAIdx : \E i, j \in 1..Len(slots) :
          /\ i # j
          /\ slots[i].day = slots[j].day
          /\ (slots[i].start..(slots[i].end - 1))
                \cap (slots[j].start..(slots[j].end - 1)) # {}
          /\ <<t, slots[i].id>> \notin model.fixed
          /\ <<t, slots[j].id>> \notin model.fixed
          /\ result.sol.x[<<t, slots[i].id>>]

\* C4: in every returned result the durations of the slots a scheduled TA
\* holds on one day sum to at most max_daily_hours, and get_slots_by_day
\* puts every slot under exactly one day.
C4_DailyHoursCap ==
    /\ result.returned =>
          \A t \in TAIdx : \A day \in {slots[k].day : k \in 1..Len(slots)} :
              SumSeq([k \in 1..Len(slots) |->
                        IF result.sol.x[<<t, slots[k].id>>] /\ slots[k].day = day
                        THEN slots[k].end - slots[k].start ELSE 0])
                  <= H(max_daily_hours)
    /\ \A k \in 1..Len(slots) :
          Cardinality({day \in DOMAIN get_slots_by_day(slots) :
                          \E n \in 1..Len(get_slots_by_day(slots)[day]) :
                              get_slots_by_day(slots)[day][n].id = slots[k].id}) = 1

\* C5: in every returned result the slots assigned to a scheduled TA carry
\* at most max_labs_per_ta distinct section labels, and the indicator of a
\* (TA, section) pair is 1 whenever a slot of that section is assigned to
\* the TA.
C5_LabLimit ==
    /\ result.returned =>
          \A t \in TAIdx :
              Cardinality({slots[k].section :
                             k \in {n \in 1..Len(slots) : result.sol.x[<<t, slots[n].id>>]}})
                  <= max_labs_per_ta
    /\ pc = "built" =>
          \A x \in XSet : \A ind \in IndicatorSet(x) :
              \A t \in TAIdx : \A k \in 1..Len(slots) :
                  x[<<t, slots[k].id>>] => ind[<<t, slots[k].section>>]

\* a returned result under a limit of one lab, in which a TA free for slots
\* of two sections that do not overlap holds one of them
C5_Witness ==
    /\ result.returned
    /\ max_labs_per_ta = 1
    /\ \E t \in TAIdx : \E i, j \in 1..Len(slots) :
          /\ slots[i].section # slots[j].section
          /\ ~slots_overlap(slots[i], slots[j])
          /\ <<t, slots[i].id>> \notin model.fixed
          /\ <<t, slots[j].id>> \notin model.fixed
          /\ result.sol.x[<<t, slots[i].id>>]

\* C6: a TA is never assigned to a slot with 0 <= start < end <= 24 if, for
\* some hour h with start <= h < end, the TA's response row lists the slot's
\* day as unavailable in the window beginning at h.
C6_NeverAssignedWhenUnavailable ==
    result.returned =>
        \A t \in TAIdx : \A k \in 1..Len(slots) :
            (/\ 0 <= slots[k].start
             /\ slots[k].end <= H(24)
             /\ \E h \in ResponseHours :
                   /\ slots[k].start <= H(h)
                   /\ H(h) < slots[k].end
                   /\ <<h, slots[k].day>> \in responses[sched[t]])
                => ~result.sol.x[<<t, slots[k].id>>]

\* C7: the model solve_schedule builds from slots that parse_requirements
\* accepted always has the solution with every assignment variable false
\* and every shortage equal to the slot's required count.
C7_ModelAlwaysFeasible ==
    pc = "built" =>
        \E sol \in Solutions :
            /\ \A p \in DOMAIN sol.x : ~sol.x[p]
            /\ \A k \in 1..Len(slots) : sol.shortage[slots[k].id] = slots[k].required

\* C8: parse_requirements does not raise on any row, and returns exactly the
\* rows whose Start and End are numbers with Start < End and whose Required
\* is greater than 0.
C8_ExactlyValidRows ==
    pc = "parsed" =>
        /\ ~parsed.raised
        /\ {slots[k].id : k \in 1..Len(slots)}
              = {RowIdx(i) : i \in {n \in 1..Len(req_df) :
                                      /\ req_df[n].start.kind = "num"
                                      /\ req_df[n].end.kind = "num"
                                      /\ req_df[n].start.v < req_df[n].end.v
                                      /\ req_df[n].required.kind = "num"
                                      /\ req_df[n].required.v > 0}}

\* C9: the slots parse_requirements returns are in the order of their rows,
\* each carries its row's cells, and their ids increase strictly along the
\* list, whichever rows were skipped.
C9_IdsInRowOrder ==
    (pc = "parsed" /\ ~parsed.raised) =>
        /\ \A k, l \in 1..Len(slots) : k < l => slots[k].id < slots[l].id
        /\ \A k \in 1..Len(slots) :
              /\ slots[k].id + 1 \in 1..Len(req_df)
              /\ slots[k].start = req_df[slots[k].id + 1].start.v
              /\ slots[k].end = req_df[slots[k].id + 1].end.v
              /\ slots[k].required = req_df[slots[k].id + 1].required.v

\* three rows of which the middle one was skipped
C9_Witness ==
    /\ pc = "parsed"
    /\ ~parsed.raised
    /\ Len(req_df) = 3
    /\ Len(slots) = 2
    /\ slots[1].id = 0
    /\ slots[2].id = 2

\* C10: for every hour h in 0..23, the label convert_24_to_12_hour(h), split
\* into its digits and its am/pm marker and given to convert_hour, yields h.
C10_HourRoundTrip ==
    (pc \in {"back", "hour"} /\ hour_24 \in 0..23) => back = hour_24

\* midnight went through "12am" and came back as 0
C10_Witness ==
    /\ pc = "back"
    /\ hour_24 = 0
    /\ label = <<"1", "2", "a", "m">>
    /\ back = 0

\* C11: for every hour number n in 1..12 and meridiem m, convert_hour(n, m)
\* is 0 for 12am, 12 for 12pm, n for the other am hours and n + 12 for the
\* other pm hours, so it lies in 0..23.
C11_ConvertHourTable ==
    pc = "hour" =>
        LET n == StrToInt(hour_str)
            am == ampm \in {<<"a", "m">>, <<"A", "M">>}
        IN  /\ n \in 1..12
            /\ am /\ n = 12 => header_hour = 0
            /\ ~am /\ n = 12 => header_hour = 12
            /\ am /\ n # 12 => header_hour = n
            /\ ~am /\ n # 12 => header_hour = n + 12
            /\ header_hour \in 0..23

\* "12" with "AM" was converted to 0
C11_Witness ==
    /\ pc = "hour"
    /\ hour_str = <<"1", "2">>
    /\ ampm = <<"A", "M">>
    /\ header_hour = 0

\* C12: a roster TA with no response row gets no assignment variable, is in
\* no slot's TAs Assigned list, and has a row in the TA report with Hours
\* Assigned 0 and Remaining hours equal to its hired hours.
C12_NoResponseNoAssignment ==
    result.returned =>
        \A e \in Range(employees) :
            e \notin DOMAIN responses =>
                /\ e \notin Range(sched)
                /\ DOMAIN result.sol.x = TAIdx \X SlotIds
                /\ \A k \in 1..Len(result.slot_results) :
                      e \notin Range(result.slot_results[k].TAsAssigned)
                /\ \E r \in 1..Len(result.ta_results) :
                      result.ta_results[r].TAName = e
                /\ \A r \in 1..Len(result.ta_results) :
                      result.ta_results[r].TAName = e =>
                          /\ result.ta_results[r].HoursAssigned = 0
                          /\ result.ta_results[r].RemainingHours = H(max_hours[e])

\* a returned result for a roster with a TA who sent no response, in which
\* another TA holds a slot
C12_Witness ==
    /\ result.returned
    /\ \E e \in Range(employees) : e \notin DOMAIN responses
    /\ \E k \in 1..Len(result.slot_results) :
          result.slot_results[k].AssignedCount >= 1

\* C13: the TA report has exactly one row per roster TA, the TAs with a
\* response row first, in roster order, then the TAs without one; the slot
\* report has exactly one row per valid slot, in slot order.
C13_OneRowPerTAAndSlot ==
    result.returned =>
        LET names == [r \in 1..Len(result.ta_results) |-> result.ta_results[r].TAName]
            RosterPos(e) == CHOOSE i \in 1..Len(employees) : employees[i] = e
        IN  /\ Len(names) = Len(employees)
            /\ \A i \in 1..Len(employees) :
                  Cardinality({r \in 1..Len(names) : names[r] = employees[i]}) = 1
            /\ \A r, q \in 1..Len(names) :
                  r < q =>
                      /\ names[q] \in DOMAIN responses => names[r] \in DOMAIN responses
                      /\ (names[r] \in DOMAIN responses <=> names[q] \in DOMAIN responses)
                            => RosterPos(names[r]) < RosterPos(names[q])
            /\ Len(result.slot_results) = Len(slots)
            /\ \A k \in 1..Len(slots) :
                  /\ result.slot_results[k].LabSection = slots[k].section
                  /\ result.slot_results[k].Day = slots[k].day
                  /\ result.slot_results[k].StartTime = slots[k].start
                  /\ result.slot_results[k].EndTime = slots[k].end

\* a returned result whose roster starts with a TA without a response row,
\* for two slots
C13_Witness ==
    /\ result.returned
    /\ Len(employees) = 2
    /\ employees[1] \notin DOMAIN responses
    /\ Len(result.ta_results) = 2
    /\ result.ta_results[2].TAName = employees[1]
    /\ Len(result.slot_results) = 2

\* C14: for every scheduled TA, Hours Assigned is the sum of the durations of
\* exactly the slots whose assigned list contains the TA, the per-day
\* breakdown sums to Hours Assigned, and Remaining hours is Hours Hired For
\* minus Hours Assigned and is never negative.
C14_TAReportTotals ==
    result.returned =>
        \A t \in TAIdx :
            LET row == result.ta_results[t]
                bd == row.DailyBreakdown
            IN  /\ row.TAName = sched[t]
                /\ row.HoursAssigned =
                      SumSeq([k \in 1..Len(result.slot_results) |->
                                IF sched[t] \in Range(result.slot_results[k].TAsAssigned)
                                THEN result.slot_results[k].Duration ELSE 0])
                /\ DOMAIN bd \subseteq {slots[k].day : k \in 1..Len(slots)}
                /\ row.HoursAssigned =
                      SumSeq([k \in 1..Len(slots) |->
                                IF /\ slots[k].day \in DOMAIN bd
                                   /\ \A j \in 1..(k - 1) : slots[j].day # slots[k].day
                                THEN bd[slots[k].day] ELSE 0])
                /\ row.RemainingHours = H(row.HoursHiredFor) - row.HoursAssigned
                /\ row.RemainingHours >= 0

\* C15: when a fatal input condition holds (a file is missing, required
\* columns are absent, no requirement row is valid, i.e. has numeric
\* Start < End and Required > 0, or no roster TA has a response row), the
\* run ends with an error and never calls the solving backend.
C15_FatalAbortsBeforeSolve ==
    (\/ ~files.max_path \/ ~files.resp_path \/ ~files.req_path
     \/ ~files.max_columns \/ ~files.req_columns \/ ~files.name_column
     \/ DOMAIN columns = {}
     \/ \A n \in 1..Len(req_df) :
            ~(/\ req_df[n].start.kind = "num"
              /\ req_df[n].end.kind = "num"
              /\ req_df[n].start.v < req_df[n].end.v
              /\ req_df[n].required.kind = "num"
              /\ req_df[n].required.v > 0)
     \/ \A i \in 1..Len(employees) : employees[i] \notin DOMAIN responses)
        => /\ solver_calls = 0
           /\ pc = "done" => error # "none"

\* C16: once the backend has answered, solve_schedule has returned its two
\* reports exactly if the status is OPTIMAL or FEASIBLE; for every other
\* status it has raised an error and there are no reports, and the errors
\* for INFEASIBLE and for MODEL_INVALID carry different messages.
C16_ReportsIffSolved ==
    (solver_calls = 1 /\ result.status # "none") =>
        /\ result.returned <=> result.status \in {"OPTIMAL", "FEASIBLE"}
        /\ result.returned => Len(result.slot_results) = Len(slots)
        /\ ~result.returned =>
              /\ pc = "failed"
              /\ error # "none"
              /\ result.slot_results = <<>>
              /\ result.ta_results = <<>>
        /\ result.status = "INFEASIBLE" => error # ErrorMessage("MODEL_INVALID")
        /\ result.status = "MODEL_INVALID" => error # ErrorMessage("INFEASIBLE")

\* the backend found the model infeasible and solve_schedule raised
C16_Witness ==
    /\ solver_calls = 1
    /\ pc = "failed"
    /\ result.status = "INFEASIBLE"
    /\ ~result.returned
    /\ error = ErrorMessage("INFEASIBLE")

\* C17: when the reports have been returned, every non-fatal condition of the
\* run is in the warnings returned with them: each roster TA without a
\* response row, and each requirement row that validation skipped.
C17_WarningsReturned ==
    (pc = "solved" /\ result.returned) =>
        /\ \A i \in 1..Len(employees) :
              employees[i] \notin DOMAIN responses =>
                  \E k \in 1..Len(Warnings) :
                      /\ Warnings[k].kind = "missing"
                      /\ Warnings[k].what = employees[i]
        /\ \A n \in 1..Len(req_df) :
              RowIdx(n) \notin {slots[k].id : k \in 1..Len(slots)} =>
                  \E k \in 1..Len(Warnings) :
                      /\ Warnings[k].kind = "skipped"
                      /\ Warnings[k].what = RowIdx(n)

C19_BonusRewardsSpreading ==
    pc = "built" =>
        LET TotalShortage(s) == SumSeq([k \in 1..Len(slots) |-> s.shortage[slots[k].id]])
            TotalHours(s) ==
                SumSeq([k \in 1..Len(slots) |->
                          Duration(slots[k]) * AssignedCount(s.x, slots[k].id)])
            Empty(s) == Cardinality({k \in 1..Len(slots) :
                                        AssignedCount(s.x, slots[k].id) = 0})
        IN  \A sols \in {SolverValues} : \A a, b \in sols :
                (/\ TotalShortage(a) = TotalShortage(b)
                 /\ TotalHours(a) = TotalHours(b)
                 /\ Empty(a) < Empty(b))
                    => Objective(a) > Objective(b)

\* C20: in an OPTIMAL result there is no TA and slot with Needed > 0, the TA
\* not assigned to the slot, such that the TA lists no window of the slot as
\* unavailable and, with the slot added, the TA's hours stay within the
\* hired hours and within max_daily_hours on that day, the TA's slots stay
\* free of overlaps and carry at most max_labs_per_ta sections.
C20_OptimalIsMaximal ==
    (result.returned /\ result.status = "OPTIMAL") =>
        \A t \in TAIdx : \A k \in 1..Len(slots) :
            LET x == result.sol.x
                mine == {n \in 1..Len(slots) : x[<<t, slots[n].id>>]}
                with == mine \cup {k}
                Hours(S) == SumSeq([n \in 1..Len(slots) |->
                                      IF n \in S THEN slots[n].end - slots[n].start ELSE 0])
            IN  ~(/\ result.sol.shortage[slots[k].id] > 0
                  /\ ~x[<<t, slots[k].id>>]
                  /\ \A h \in ResponseHours :
                        (H(h) < slots[k].end /\ slots[k].start < H(h + 1))
                            => <<h, slots[k].day>> \notin responses[sched[t]]
                  /\ Hours(with) <= H(Hired(sched[t]))
                  /\ Hours({n \in with : slots[n].day = slots[k].day}) <= H(max_daily_hours)
                  /\ \A n \in mine :
                        ~(/\ slots[n].day = slots[k].day
                          /\ slots[n].start < slots[k].end
                          /\ slots[k].start < slots[n].end)
                  /\ Cardinality({slots[n].section : n \in with}) <= max_labs_per_ta)

\* an OPTIMAL result for one scheduled TA and a slot that requires two: the
\* TA is assigned and one position stays needed
C20_Witness ==
    /\ result.returned
    /\ result.status = "OPTIMAL"
    /\ Len(sched) = 1
    /\ \E k \in 1..Len(result.slot_results) :
          /\ result.slot_results[k].RequiredCount = 2
          /\ result.slot_results[k].AssignedCount = 1
          /\ result.slot_results[k].Needed = 1

C22_OverlapPairs ==
    pc = "built" =>
        LET Overlapping(a, b) ==
                a.day = b.day /\ a.start < b.end /\ b.start < a.end
            Touching(a, b) == a.day = b.day /\ (a.end = b.start \/ b.end = a.start)
            Both(t, i, j) ==
                [p \in TAIdx \X SlotIds |->
                    p[1] = t /\ p[2] \in {slots[i].id, slots[j].id}]
        IN  \A i, j \in 1..Len(slots) :
                /\ slots_overlap(slots[i], slots[j]) = slots_overlap(slots[j], slots[i])
                /\ slots_overlap(slots[i], slots[j]) = Overlapping(slots[i], slots[j])
                /\ i < j => (<<i, j>> \in OverlapPairs <=> Overlapping(slots[i], slots[j]))
                /\ <<i, j>> \in OverlapPairs => i < j
                /\ (i # j /\ Touching(slots[i], slots[j]))
                      => \A t \in TAIdx : NoOverlap(Both(t, i, j), t)

\* a returned result in which one TA holds two slots that touch
C22_Witness ==
    /\ result.returned
    /\ \E t \in TAIdx : \E i, j \in 1..Len(slots) :
          /\ slots[i].day = slots[j].day
          /\ slots[i].end = slots[j].start
          /\ result.sol.x[<<t, slots[i].id>>]
          /\ result.sol.x[<<t, slots[j].id>>]

\* C23: in every returned result, the TAs Assigned list of each slot row
\* names exactly the TAs whose assignment variable for the slot is true, each
\* once and in the order of the roster, and Assigned Count is the length of
\* the list.
C23_AssignedListInRosterOrder ==
    result.returned =>
        \A k \in 1..Len(slots) :
            LET names == result.slot_results[k].TAsAssigned
                Pos(e) == CHOOSE i \in 1..Len(employees) : employees[i] = e
            IN  /\ \A a, b \in 1..Len(names) : a < b => names[a] # names[b]
                /\ Range(names) = {sched[t] : t \in {u \in TAIdx :
                                                  result.sol.x[<<u, slots[k].id>>]}}
                /\ Range(names) \subseteq Range(employees)
                /\ \A a, b \in 1..Len(names) : a < b => Pos(names[a]) < Pos(names[b])
                /\ result.slot_results[k].AssignedCount = Len(names)

\* a returned result with a slot to which two TAs are assigned
C23_Witness ==
    /\ result.returned
    /\ \E k \in 1..Len(result.slot_results) :
          /\ Len(result.slot_results[k].TAsAssigned) = 2
          /\ result.slot_results[k].AssignedCount = 2

\* C24: in every returned result, every slot row has Needed between 0 and
\* Required Count and Assigned Count at most Required Count.
C24_NeededWithinRequired ==
    result.returned =>
        \A k \in 1..Len(result.slot_results) :
            /\ result.slot_results[k].Needed >= 0
            /\ result.slot_results[k].Needed <= result.slot_results[k].RequiredCount
            /\ result.slot_results[k].AssignedCount <= result.slot_results[k].RequiredCount

\* a returned result with a fully staffed slot and a slot whose every
\* position is still needed
C24_Witness ==
    /\ result.returned
    /\ \E j, k \in 1..Len(result.slot_results) :
          /\ result.slot_results[j].AssignedCount = result.slot_results[j].RequiredCount
          /\ result.slot_results[j].Needed = 0
          /\ result.slot_results[k].Needed = result.slot_results[k].RequiredCount
          /\ result.slot_results[k].RequiredCount > 0

\* C25: no step of a run changes the roster, the hired hours, the responses
\* or the caps, and no step of solve_schedule changes the slots; the model of
\* every solve_schedule call, the first and the later ones, is the one a
\* build from the call's arguments alone gives.
C25_InputsUnchangedModelFresh ==
    /\ [][/\ UNCHANGED <<employees, max_hours, columns, responses,
                         max_daily_hours, max_labs_per_ta>>
          /\ pc \in {"ready", "built"} => UNCHANGED parsed]_vars
    /\ [](pc \in {"built", "solved"} =>
            model = [sched |-> SelectSeq(employees, HasResponse),
                     fixed |-> Unavailable(SelectSeq(employees, HasResponse)),
                     slots_by_day |-> get_slots_by_day(slots)])

\* the second run has solved a model with a TA, an assignment fixed to 0 and
\* an assignment made
C25_Witness ==
    /\ runs = 2
    /\ result.returned
    /\ model.fixed # {}
    /\ \E p \in DOMAIN result.sol.x : result.sol.x[p]

\* C26: for every TA with a response row and every slot, is_available on the
\* hours solve_schedule passes it answers as the availability table that
\* parse_responses builds for the TA does: available exactly when no entry
\* of the table for the slot's day and one of the slot's hours is False; so
\* the assignment variable is fixed to 0 exactly when some entry is False.
C26_AvailabilityAgrees ==
    pc = "built" =>
        \A t \in TAIdx : \A tab \in {availability_of(sched[t])} :
            \A k \in 1..Len(slots) :
                LET hours == IntOf(slots[k].start)..(IntOf(slots[k].end) - 1)
                    table_says ==
                        \A h \in hours :
                            (h \in DOMAIN tab /\ slots[k].day \in DOMAIN tab[h])
                                => tab[h][slots[k].day]
                IN  /\ is_available(sched[t], slots[k].day,
                                    IntOf(slots[k].start), IntOf(slots[k].end))
                          = table_says
                    /\ (<<t, slots[k].id>> \in model.fixed) = ~table_says

\* C27: for every hour h of 0..23 the columns is_available reads for h are
\* the columns whose header, parsed with convert_hour, starts at h and ends
\* at (h + 1) mod 24; and no returned result assigns a TA who lists a day
\* under "11pm to 12am" to a slot of that day that ends at 24.
C27_LookupMatchesWindow ==
    /\ pc = "built" =>
          \A h \in 0..23 :
              MatchingColumns(h) =
                  {c \in DOMAIN columns :
                      /\ HeaderStart(columns[c]) = h
                      /\ HeaderEnd(columns[c]) = (h + 1) % 24}
    /\ result.returned =>
          \A t \in TAIdx : \A k \in 1..Len(slots) :
              (/\ slots[k].end = H(24)
               /\ \E c \in DOMAIN columns :
                     /\ HeaderStart(columns[c]) = 23
                     /\ <<c, slots[k].day>> \in responses[sched[t]])
                  => ~result.sol.x[<<t, slots[k].id>>]

\* C28: whenever run has disabled the Run Scheduler button, the button is
\* eventually enabled again, however the run ends: with results, with a
\* raised error or with the rejection of an invalid Max Daily Hours or Max
\* Labs per TA entry.
C28_ButtonReenabled == (~button_enabled) ~> button_enabled

\* C29: for every slot parse_requirements accepted, the duration the
\* hired-hours and daily-hours constraints count is the duration the
\* objective counts and the reports show; so in every returned result each
\* TA's Hours Assigned is within Hours Hired For and each day of the Daily
\* Breakdown is within max_daily_hours.
C29_OneDuration ==
    /\ pc = "built" =>
          \A k \in 1..Len(slots) : H(IntDuration(slots[k])) = Duration(slots[k])
    /\ result.returned =>
          \A k \in 1..Len(slots) :
              result.slot_results[k].Duration = H(IntDuration(slots[k]))
    /\ result.returned =>
          \A r \in 1..Len(result.ta_results) :
              /\ result.ta_results[r].HoursAssigned
                    <= H(result.ta_results[r].HoursHiredFor)
              /\ \A d \in DOMAIN result.ta_results[r].DailyBreakdown :
                    result.ta_results[r].DailyBreakdown[d] <= H(max_daily_hours)

\* C30: once parse_responses has returned, every TA of the roster is a key of
\* its availability map or an entry of its missing list and never both, the
\* missing list holds roster TAs only, and the TAs on it are exactly the
\* roster TAs that solve_schedule leaves out of sched.
C30_RosterPartition ==
    /\ pc \in {"responses", "ready", "built", "solved"} =>
          /\ \A e \in Range(employees) :
                (e \in AvailabilityKeys) # (e \in Range(missing))
          /\ Range(missing) \subseteq Range(employees)
    /\ pc \in {"built", "solved"} =>
          Range(missing) = Range(employees) \ Range(sched)

\* a returned result for a roster with a TA on the missing list and a TA
\* with a response row
C30_Witness ==
    /\ result.returned
    /\ missing # <<>>
    /\ DOMAIN availability # {}
    /\ sched # <<>>

====
